---- MODULE Spec2Model ----
(***************************************************************************)
(* Model of src/app.py: the /process pipeline that reconciles an inventory *)
(* CSV against a requests XLSX and returns a two-sheet workbook.           *)
(*                                                                         *)
(* A Python str is a sequence of one-character strings, so the string      *)
(* operations of the source (upper, strip, split, re.sub, float, strptime) *)
(* are computed character by character.  The empty string "" is <<>>.      *)
(* A cell that holds a number n is the one-element sequence <<n>>, so a    *)
(* column that mixes numbers and "" (LEAD TIME, SALES PRICE) stays         *)
(* comparable.  Decimal numbers are kept in hundredths.                    *)
(***************************************************************************)
EXTENDS Integers, Sequences, FiniteSets, TLC

VARIABLES
    pc,            \* the statement of process() that runs next
    lc,            \* request.files["lc"]: the inventory CSV
    rq,            \* request.files["rq"]: the requests XLSX
    inv,           \* the inventory DataFrame
    req,           \* the requests DataFrame
    match_df,      \* the rows of the "Match value" sheet
    unmatched_df,  \* the rows of the "Not Matching Values" sheet
    book,          \* the temporary workbook file
    today,         \* the date of the day, datetime.date.today()
    exc,           \* the exception caught by process(), "" when none
    response       \* what process() returned

vars == <<pc, lc, rq, inv, req, match_df, unmatched_df, book, today, exc, response>>

\* ---------------------------------------------------------------- bounds
MaxInv == 2
MaxReq == 2

\* ------------------------------------------------------- Python strings
Empty == <<>>

Lower == <<"a","b","c","d","e","f","g","h","i","j","k","l","m",
           "n","o","p","q","r","s","t","u","v","w","x","y","z">>
Upper == <<"A","B","C","D","E","F","G","H","I","J","K","L","M",
           "N","O","P","Q","R","S","T","U","V","W","X","Y","Z">>
Digits == <<"0","1","2","3","4","5","6","7","8","9">>
Whitespace == {" ", "\t", "\n"}

IsIn(c, s) == \E i \in 1..Len(s) : s[i] = c
IndexOf(c, s) == CHOOSE i \in 1..Len(s) : s[i] = c

\* str.upper(), str.lower()
upper_char(c) == IF IsIn(c, Lower) THEN Upper[IndexOf(c, Lower)] ELSE c
lower_char(c) == IF IsIn(c, Upper) THEN Lower[IndexOf(c, Upper)] ELSE c
upper(s) == [i \in 1..Len(s) |-> upper_char(s[i])]
lower(s) == [i \in 1..Len(s) |-> lower_char(s[i])]

\* str.strip()
RECURSIVE lstrip(_)
lstrip(s) == IF s # Empty /\ Head(s) \in Whitespace THEN lstrip(Tail(s)) ELSE s
RECURSIVE rstrip(_)
rstrip(s) ==
    IF s # Empty /\ s[Len(s)] \in Whitespace
    THEN rstrip(SubSeq(s, 1, Len(s) - 1)) ELSE s
strip(s) == rstrip(lstrip(s))

\* str.split(sep)
RECURSIVE split(_, _)
split(s, sep) ==
    IF ~IsIn(sep, s) THEN <<s>>
    ELSE LET k == CHOOSE i \in 1..Len(s) :
                      s[i] = sep /\ \A j \in 1..(i - 1) : s[j] # sep
         IN <<SubSeq(s, 1, k - 1)>> \o split(SubSeq(s, k + 1, Len(s)), sep)

\* str.startswith(prefix)
startswith(s, prefix) ==
    Len(s) >= Len(prefix) /\ SubSeq(s, 1, Len(prefix)) = prefix

\* re.sub(r"[^A-Z0-9]", "", ...)
IsUpperAlnum(c) == IsIn(c, Upper) \/ IsIn(c, Digits)

norm_pn(text) == SelectSeq(upper(text), IsUpperAlnum)

\* ------------------------------------------------------- numeric parsing
AllDigits(s) == \A i \in 1..Len(s) : IsIn(s[i], Digits)
RECURSIVE DigitsVal(_)
DigitsVal(s) ==
    IF s = Empty THEN 0
    ELSE 10 * DigitsVal(SubSeq(s, 1, Len(s) - 1)) + (IndexOf(s[Len(s)], Digits) - 1)

\* float(s) and the per-element parse of pd.to_numeric(..., errors="coerce"):
\* Empty when the text is no number (ValueError, NaN), else <<hundredths>>.
\* Covers the plain decimal notation [sign]digits[.digits] with at most two
\* fractional digits, surrounded by optional whitespace.
to_number(text) ==
    LET s     == strip(text)
        signed == s # Empty /\ s[1] \in {"-", "+"}
        sign  == IF signed /\ s[1] = "-" THEN -1 ELSE 1
        body  == IF signed THEN Tail(s) ELSE s
        parts == split(body, ".")
    IN IF Len(parts) = 1 /\ parts[1] # Empty /\ AllDigits(parts[1])
       THEN <<sign * 100 * DigitsVal(parts[1])>>
       ELSE IF /\ Len(parts) = 2
               /\ AllDigits(parts[1]) /\ AllDigits(parts[2])
               /\ Len(parts[1]) + Len(parts[2]) > 0
               /\ Len(parts[2]) <= 2
       THEN <<sign * (100 * DigitsVal(parts[1])
                      + (IF Len(parts[2]) = 1 THEN 10 ELSE 1) * DigitsVal(parts[2]))>>
       ELSE Empty

\* .astype(int) of a float: truncation toward zero (of hundredths to units)
astype_int(h) == IF h >= 0 THEN h \div 100 ELSE -((-h) \div 100)

\* ------------------------------------------------------------ DataFrames
\* A DataFrame whose columns the source reads by name is a sequence of rows,
\* each a function from column names to cells, with the pandas index under
\* "index".  The requests DataFrame, read by position, is a record of its
\* column names and of its rows, each a sequence of cells.
RECURSIVE SeqToSet(_)
SeqToSet(s) == IF s = Empty THEN {} ELSE {Head(s)} \cup SeqToSet(Tail(s))
Drop(r, cols) == [c \in (DOMAIN r) \ cols |-> r[c]]
Min(a, b) == IF a <= b THEN a ELSE b
RECURSIVE MaxLen(_)
MaxLen(ss) ==
    IF ss = Empty THEN 0
    ELSE LET m == MaxLen(Tail(ss)) IN IF Len(Head(ss)) >= m THEN Len(Head(ss)) ELSE m

InventoryColumns ==
    { "inscor__Quantity_Available__c", "inscor__Product__r.Name",
      "inscor__Serial_Number__c", "inscor__Condition_Code__r.Name",
      "inscor__Tag_Date__c", "Tag_Agency_Merged__c", "inscor__Trace__r.Name",
      "SSP_Updated__c", "Extended_SSP__c" }

\* pd.read_csv(fileobj, dtype=str).fillna(""): every cell a string, RangeIndex
read_csv(file) ==
    [i \in 1..Len(file.rows) |-> file.rows[i] @@ ("index" :> i - 1)]

\* the mask with >= 0 in place of > 0
quantity_kept_nonneg(r) ==
    LET n == to_number(r["inscor__Quantity_Available__c"])
    IN astype_int(IF n = Empty THEN 0 ELSE n[1]) >= 0
\* line 29: the mask pd.to_numeric(...).fillna(0).astype(int) > 0
quantity_kept(r) ==
    LET n == to_number(r["inscor__Quantity_Available__c"])
    IN astype_int(IF n = Empty THEN 0 ELSE n[1]) > 0

sanitise_quantity(df, qty_col) ==
    [i \in 1..Len(df) |->
        LET n   == to_number(df[i][qty_col])
            qty == IF n = Empty THEN 100 ELSE n[1]
        IN [df[i] EXCEPT ![qty_col] = <<astype_int(IF qty > 0 THEN qty ELSE 100)>>]]

\* lines 32-37: any exception of the try block (a KeyError, the ValueError of
\* either float()) returns ""
best_price(r) ==
    LET p == IF "SSP_Updated__c" \in DOMAIN r
             THEN to_number(r["SSP_Updated__c"]) ELSE Empty
        e == IF "Extended_SSP__c" \in DOMAIN r
             THEN to_number(r["Extended_SSP__c"]) ELSE Empty
    IN IF p = Empty THEN Empty
       ELSE IF p[1] > 0 THEN p
       ELSE e

USD == <<"U","S","D">>

\* lines 40-55: the projection to the canonical row shape
canonical_row(r) ==
    ("index"         :> r["index"]) @@
    ("QUANTITY"      :> r["inscor__Quantity_Available__c"]) @@
    ("PART NUMBER"   :> r["inscor__Product__r.Name"]) @@
    ("SERIAL NUMBER" :> r["inscor__Serial_Number__c"]) @@
    ("CONDITION"     :> r["inscor__Condition_Code__r.Name"]) @@
    ("TAG DATE"      :> r["inscor__Tag_Date__c"]) @@
    ("TAGGED BY ONE" :> r["Tag_Agency_Merged__c"]) @@
    ("LAST OPERATOR" :> r["inscor__Trace__r.Name"]) @@
    ("SALES PRICE"   :> r["$PRICE"]) @@
    ("LEAD TIME"     :> Empty) @@
    ("TAGGED BY"     :> Empty) @@
    ("CERTIFICATES"  :> Empty) @@
    ("CURRENCY"      :> USD)

\* the columns line 29 and the projection of line 50 read by name; best_price
\* reads the two price columns inside its try block
load_inventory_raises(file) ==
    ~((InventoryColumns \ {"SSP_Updated__c", "Extended_SSP__c"}) \subseteq file.columns)

load_inventory(file) ==
    LET raw0 == SelectSeq(read_csv(file), quantity_kept)
        raw1 == sanitise_quantity(raw0, "inscor__Quantity_Available__c")
        raw2 == [i \in 1..Len(raw1) |-> raw1[i] @@ ("$PRICE" :> best_price(raw1[i]))]
    IN [i \in 1..Len(raw2) |-> canonical_row(raw2[i])]

\* ------------------------------------------------------------- requests
remarks == <<"r","e","m","a","r","k","s">>
COND_ == <<"C","O","N","D","_">>

\* pd.read_excel(fileobj, dtype=str).fillna("")
read_excel(file) == [columns |-> file.columns, rows |-> file.rows]

RemoveAt(s, k) == SubSeq(s, 1, k - 1) \o SubSeq(s, k + 1, Len(s))
\* lines 64-66: req.columns[5] is the sixth column
drop_remarks(df) ==
    IF Len(df.columns) > 5 /\ lower(strip(df.columns[6])) = remarks
    THEN [columns |-> RemoveAt(df.columns, 6),
          rows    |-> [i \in 1..Len(df.rows) |-> RemoveAt(df.rows[i], 6)]]
    ELSE df

\* line 69, as a position counted from 1
cond_idx(df) == IF Len(df.columns) > 8 THEN 9 ELSE Len(df.columns)

\* the width without the cut to four columns
split_width_unbounded(pieces) == MaxLen(pieces)
\* lines 72-74: .str.split(",", expand=True).iloc[:, :4].fillna("").applymap(str.strip):
\* one column per piece, as many as the longest row has and at most four
split_width(pieces) == Min(4, MaxLen(pieces))
slot(p, k) == IF k <= Len(p) THEN strip(p[k]) ELSE Empty

\* req.columns[cond_idx] of a table without columns is an IndexError
load_requests_raises(file) == Len(drop_remarks(read_excel(file)).columns) = 0

load_requests(file) ==
    LET df     == drop_remarks(read_excel(file))
        c      == cond_idx(df)
        pieces == [i \in 1..Len(df.rows) |-> split(df.rows[i][c], ",")]
        w      == split_width(pieces)
    IN [columns |-> df.columns \o [k \in 1..w |-> COND_ \o <<Digits[k + 1]>>],
        rows    |-> [i \in 1..Len(df.rows) |->
                        df.rows[i] \o [k \in 1..w |-> slot(pieces[i], k)]]]

\* ------------------------------------------------------------ lead time
\* line 87: the positions of the columns whose name starts with "COND_"
cond_cols(df) == {c \in 1..Len(df.columns) : startswith(df.columns[c], COND_)}

\* lines 88-89: melt(id_vars=[pn_col], value_vars=cond_cols) then COND != '':
\* one long row per request row and condition slot, the row's own part number
\* beside the slot's condition
req_long_all(df) ==
    { [pn |-> df.rows[i][6], COND |-> df.rows[i][c]] :
        i \in 1..Len(df.rows), c \in cond_cols(df) }
req_long(df) == { m \in req_long_all(df) : m.COND # Empty }

\* lines 90-92
valid_pairs(df) == { <<norm_pn(m.pn), upper(strip(m.COND))>> : m \in req_long(df) }

\* req.columns[5] of a table with fewer than six columns is an IndexError
set_lead_time_raises(df) == Len(df.columns) < 6

\* the flag with the inventory condition upper-cased but not stripped
lead_time_cond_unstripped(r, valid) ==
    IF <<norm_pn(r["PART NUMBER"]), upper(r["CONDITION"])>> \in valid
    THEN <<1>> ELSE Empty
\* lines 83-84, 94-97
lead_time(r, valid) ==
    IF <<norm_pn(r["PART NUMBER"]), upper(strip(r["CONDITION"]))>> \in valid
    THEN <<1>> ELSE Empty

set_lead_time(df, rq_df) ==
    LET valid == valid_pairs(rq_df)
    IN [i \in 1..Len(df) |-> [df[i] EXCEPT !["LEAD TIME"] = lead_time(df[i], valid)]]

\* --------------------------------------------------------- certificates
C_SV == <<"S","V">>
C_OH == <<"O","H">>
C_NE == <<"N","E">>
C_NEW == <<"N","E","W">>
C_FN == <<"F","N">>
FAA == <<"F","A","A">>
FAA_EASA == <<"F","A","A",",","E","A","S","A">>

\* lines 104-108
cert(cond) ==
    IF upper(cond) \in {C_SV, C_OH} THEN FAA_EASA
    ELSE IF upper(cond) \in {C_NE, C_NEW, C_FN} THEN FAA
    ELSE Empty

fill_certificates(df) ==
    [i \in 1..Len(df) |->
        Drop([df[i] EXCEPT
                 !["CERTIFICATES"] = cert(df[i]["CONDITION"]),
                 !["TAGGED BY"] = IF df[i]["TAGGED BY"] = Empty
                                  THEN df[i]["TAGGED BY ONE"]
                                  ELSE df[i]["TAGGED BY"]],
             {"TAGGED BY ONE"})]

\* ------------------------------------------------------------ unmatched
RECURSIVE drop_duplicates(_)
drop_duplicates(s) ==
    IF s = Empty THEN Empty
    ELSE LET init == drop_duplicates(SubSeq(s, 1, Len(s) - 1))
         IN IF IsIn(s[Len(s)], init) THEN init ELSE Append(init, s[Len(s)])

\* the part numbers of the matched rows only
have_matched_only(df) ==
    { norm_pn(df[i]["PART NUMBER"]) :
        i \in {j \in 1..Len(df) : df[j]["LEAD TIME"] = <<1>>} }
\* line 117
have(df) == { norm_pn(df[i]["PART NUMBER"]) : i \in 1..Len(df) }

\* lines 118-120
unmatched_req_sheet(inv_all, rq_df) ==
    LET h    == have(inv_all)
        want == [i \in 1..Len(rq_df.rows) |-> norm_pn(rq_df.rows[i][6])]
        NotHad(x) == x \notin h
    IN drop_duplicates(SelectSeq(want, NotHad))

\* ------------------------------------------------------ request metadata
\* the dict that keeps the first row of a key
RECURSIVE build_lookup_first(_)
build_lookup_first(rows) ==
    IF rows = Empty THEN <<>>
    ELSE build_lookup_first(SubSeq(rows, 1, Len(rows) - 1))
         @@ (norm_pn(rows[Len(rows)][6]) :> rows[Len(rows)])
\* the dict keyed by the part number as written
RECURSIVE build_lookup_raw_key(_)
build_lookup_raw_key(rows) ==
    IF rows = Empty THEN <<>>
    ELSE (rows[Len(rows)][6] :> rows[Len(rows)])
         @@ build_lookup_raw_key(SubSeq(rows, 1, Len(rows) - 1))
\* line 126: a dict comprehension over the request rows in order; a later row
\* with the same key replaces the earlier one
RECURSIVE build_lookup(_)
build_lookup(rows) ==
    IF rows = Empty THEN <<>>
    ELSE (norm_pn(rows[Len(rows)][6]) :> rows[Len(rows)])
         @@ build_lookup(SubSeq(rows, 1, Len(rows) - 1))

Placeholders ==
    { "Manufacturer", "Last MSN", "Deviations", "Comment",
      "Expiration Date", "Loan Price", "Exchange Price" }

\* lines 127-142
attach_request_meta(df, rq_df) ==
    LET lookup == build_lookup(rq_df.rows)
    IN [i \in 1..Len(df) |->
          LET key == norm_pn(df[i]["PART NUMBER"])
              hit == key \in DOMAIN lookup
          IN df[i]
             @@ ("Request No."       :> IF hit THEN lookup[key][1] ELSE Empty)
             @@ ("Delivery Date"     :> IF hit THEN lookup[key][2] ELSE Empty)
             @@ ("Demander"          :> IF hit THEN lookup[key][3] ELSE Empty)
             @@ ("Transaction Types" :> IF hit THEN lookup[key][4] ELSE Empty)
             @@ [c \in Placeholders |-> Empty]]

\* lines 145-147: to_numeric(coerce).fillna(0) * 1.10; the price, kept in
\* hundredths, times 11 is the uplifted price in thousandths
uplift_price(df) ==
    [i \in 1..Len(df) |->
        [df[i] EXCEPT !["SALES PRICE"] =
            <<(IF df[i]["SALES PRICE"] = Empty THEN 0 ELSE df[i]["SALES PRICE"][1]) * 11>>]]

FINAL_ORDER ==
    << "Request No.", "Delivery Date", "Demander", "Transaction Types",
       "QUANTITY", "PART NUMBER", "SERIAL NUMBER", "Manufacturer",
       "CONDITION", "LEAD TIME", "TAGGED BY", "TAG DATE", "CERTIFICATES",
       "Expiration Date", "Comment", "Deviations", "Last MSN",
       "LAST OPERATOR", "SALES PRICE", "CURRENCY",
       "Loan Price", "Exchange Price" >>

\* line 214
is_match(r) == r["LEAD TIME"] = <<1>>
\* lines 214-217
build_match_df(df, rq_df) ==
    LET matched  == SelectSeq(df, is_match)
        enriched == uplift_price(attach_request_meta(matched, rq_df))
    IN [i \in 1..Len(enriched) |->
          [c \in SeqToSet(FINAL_ORDER) \cup {"index"} |-> enriched[i][c]]]

\* ----------------------------------------------------------- row colour
IsLeap(y) == (y % 4 = 0 /\ y % 100 # 0) \/ y % 400 = 0
DaysInMonth(y, m) ==
    IF m = 2 THEN (IF IsLeap(y) THEN 29 ELSE 28)
    ELSE IF m \in {4, 6, 9, 11} THEN 30 ELSE 31

\* line 180: datetime.strptime(str(cell.value)[:10], "%Y-%m-%d").date();
\* Empty when it raises ValueError, else <<the date>>.  %Y takes four digits,
\* %m and %d one or two (%d also a space and a digit), and the date has to exist.
strptime_date(text) ==
    LET s     == SubSeq(text, 1, Min(10, Len(text)))
        parts == split(s, "-")
    IN IF Len(parts) # 3 THEN Empty
       ELSE LET yt == parts[1]
                mt == parts[2]
                dt == IF Len(parts[3]) = 2 /\ parts[3][1] = " "
                      THEN Tail(parts[3]) ELSE parts[3]
            IN IF /\ Len(yt) = 4 /\ AllDigits(yt)
                  /\ Len(mt) \in 1..2 /\ AllDigits(mt)
                  /\ Len(dt) \in 1..2 /\ AllDigits(dt)
                  /\ DigitsVal(yt) >= 1
                  /\ DigitsVal(mt) \in 1..12
                  /\ DigitsVal(dt) \in 1..DaysInMonth(DigitsVal(yt), DigitsVal(mt))
               THEN <<[year |-> DigitsVal(yt), month |-> DigitsVal(mt),
                       day |-> DigitsVal(dt)]>>
               ELSE Empty

\* line 181
month_diff(t, d) == (t.year - d.year) * 12 + t.month - d.month

\* lines 169-173
fills == [red |-> "FF0000", green |-> "00FF00", yellow |-> "FFFF00"]
NoFill == ""

\* the colour with a difference of 8 months still yellow
fill_for_strict(diff) ==
    IF diff > 24 THEN fills.red ELSE IF diff > 8 THEN fills.green ELSE fills.yellow
\* line 182
fill_for(diff) ==
    IF diff > 24 THEN fills.red ELSE IF diff >= 8 THEN fills.green ELSE fills.yellow

\* lines 164-185: the fill of every cell of every data row of the sheet.  The
\* TAG DATE cells are the strings of the CSV (dtype=str), never native dates.
colour_rows(ws, t) ==
    [i \in 1..Len(ws.rows) |->
        LET row  == ws.rows[i]
            cell == IF IsIn("TAG DATE", ws.header)
                    THEN row[IndexOf("TAG DATE", ws.header)] ELSE Empty
            d    == strptime_date(cell)
        IN IF cell = Empty \/ d = Empty
           THEN [c \in 1..Len(row) |-> NoFill]
           ELSE [c \in 1..Len(row) |-> fill_for(month_diff(t, d[1]))]]

\* ------------------------------------------------------------- workbook
\* lines 222-224: to_excel(..., index=False)
match_sheet(df) ==
    [header |-> FINAL_ORDER,
     rows   |-> [i \in 1..Len(df) |->
                    [k \in 1..Len(FINAL_ORDER) |-> df[i][FINAL_ORDER[k]]]]]
unmatched_sheet(df) ==
    [header |-> <<"Part Number">>,
     rows   |-> [i \in 1..Len(df) |-> <<df[i]>>]]

NoSheet == [header |-> <<>>, rows |-> <<>>]
NoBook == [written |-> FALSE, coloured |-> FALSE,
           match |-> NoSheet, unmatched |-> NoSheet, fill |-> <<>>]
NoTable == [columns |-> <<>>, rows |-> <<>>]
NoResponse == [status |-> 0, body |-> <<>>, file |-> NoBook, download_name |-> ""]

\* --------------------------------------------------------------- inputs
\* The uploaded files.  An inventory file is its column names and its rows;
\* a requests file is its file name, its column names in order and its rows.
InvRow(qty, pn, cond, tag, ssp, ext) ==
    ("inscor__Quantity_Available__c"  :> qty) @@
    ("inscor__Product__r.Name"        :> pn) @@
    ("inscor__Serial_Number__c"       :> <<"S","1">>) @@
    ("inscor__Condition_Code__r.Name" :> cond) @@
    ("inscor__Tag_Date__c"            :> tag) @@
    ("Tag_Agency_Merged__c"           :> <<"F","A","A">>) @@
    ("inscor__Trace__r.Name"          :> <<"D","L","H">>) @@
    ("SSP_Updated__c"                 :> ssp) @@
    ("Extended_SSP__c"                :> ext)

\* rows that differ in part number and condition
MatchRows ==
    { InvRow(<<"5">>, x[1], x[2], <<"2","0","2","3","-","0","1","-","1","5">>, <<"1","0","0">>, Empty) : x \in
        { <<<<"a","b","1","2","3">>, <<"o","h"," ">>>>,
          <<<<"A","B","-","1","2","3">>, <<"N","E">>>>,
          <<<<"X","Y","9">>, <<"n","e">>>>,
          <<<<"z","z",".","1">>, <<"S","V">>>> } }
\* rows that differ in the quantity field
QuantityRows ==
    { InvRow(q, <<"A","B","-","1","2","3">>, <<"O","H">>, <<"2","0","2","3","-","0","1","-","1","5">>, <<"1","0","0">>, Empty) : q \in
        { <<"5">>,
          <<"0">>,
          <<"-","3">>,
          <<"a","b","c">>,
          <<>>,
          <<"0",".","5">>,
          <<"2",".","7">> } }
\* rows that differ in the two price fields
PriceRows ==
    { InvRow(<<"5">>, <<"A","B","-","1","2","3">>, <<"O","H">>, <<"2","0","2","3","-","0","1","-","1","5">>, x[1], x[2]) : x \in
        { <<<<"1","0","0">>, <<"8","0">>>>,
          <<<<"0">>, <<"8","0">>>>,
          <<<<>>, <<"8","0">>>>,
          <<<<"a","b","c">>, <<"8","0">>>>,
          <<<<"-","5">>, <<"1","2",".","5">>>>,
          <<<<"0">>, <<"x">>>>,
          <<<<>>, <<>>>>,
          <<<<"7",".","2","5">>, <<>>>> } }
\* rows that differ in the tag date
TagRows ==
    { InvRow(<<"5">>, <<"A","B","-","1","2","3">>, <<"O","H">>, t, <<"1","0","0">>, Empty) : t \in
        { <<"2","0","2","2","-","0","6","-","1","5">>,
          <<"2","0","2","3","-","1","0","-","0","1">>,
          <<"2","0","2","3","-","1","1","-","2","0">>,
          <<"2","0","2","5","-","0","1","-","0","1">>,
          <<>>,
          <<"n","/","a">>,
          <<"2","0","2","3","-","1","0","-","0","1","T","0","0",":","0","0",":","0","0">>,
          <<"2","0","2","2","-","2","-","3","0">> } }

\* a request row: its part number and its comma-separated condition field.
\* A requests sheet with columns has at least one data row: what melt and the
\* .str accessor do with a sheet of no rows depends on the pandas version.
RequestRows ==
    { <<<<"A","B","1","2","3">>, <<"O","H",","," ",",","N","E",","," ">>>>,
      <<<<"a","b","-","1","2","3">>, <<"o","h">>>>,
      <<<<"X","Y","9">>, <<"S","V",",","O","H",",","X","X",",","F","N",",","N","E">>>> }

SeqsUpTo(S, lo, hi) == UNION { [1..n -> S] : n \in lo..hi }

InventoryFile(rows) == [present |-> TRUE, columns |-> InventoryColumns, rows |-> rows]
\* an export without the quantity column
InventoryFileNoQty ==
    [present |-> TRUE,
     columns |-> InventoryColumns \ {"inscor__Quantity_Available__c"},
     rows    |-> << Drop(InvRow(<<"5">>, <<"A","B","-","1","2","3">>, <<"O","H">>, <<"2","0","2","3","-","0","1","-","1","5">>, <<"1","0","0">>, Empty),
                         {"inscor__Quantity_Available__c"}) >>]
NoFile == [present |-> FALSE, columns |-> {}, rows |-> <<>>]

\* the four leading metadata cells of the i-th request row
Meta(i) == << <<"R", Digits[i + 1]>>, <<"D", Digits[i + 1]>>,
              <<"M", Digits[i + 1]>>, <<"T", Digits[i + 1]>> >>
MetaColumns == << <<"R","e","q","u","e","s","t"," ","N","o",".">>, <<"D","e","l","i","v","e","r","y"," ","D","a","t","e">>, <<"D","e","m","a","n","d","e","r">>, <<"T","r","a","n","s","a","c","t","i","o","n"," ","T","y","p","e","s">> >>

\* the layouts of the requests sheet: part number in column F and condition in
\* column I; a "Remarks" column at F pushing both one column right; a narrow
\* sheet whose last column G is the condition; a sheet of one column; a sheet
\* without columns
Layouts == {"standard", "remarks", "narrow", "single", "empty"}
LayoutColumns(layout) ==
    CASE layout = "standard" ->
           MetaColumns \o << <<"D","e","s","c","r","i","p","t","i","o","n">>, <<"P","a","r","t"," ","N","o",".">>, <<"Q","t","y">>, <<"U","n","i","t">>, <<"C","o","n","d","i","t","i","o","n">> >>
      [] layout = "remarks" ->
           MetaColumns \o << <<"D","e","s","c","r","i","p","t","i","o","n">>, <<" ","R","e","m","a","r","k","s">>, <<"P","a","r","t"," ","N","o",".">>, <<"Q","t","y">>, <<"U","n","i","t">>, <<"C","o","n","d","i","t","i","o","n">> >>
      [] layout = "narrow" ->
           MetaColumns \o << <<"D","e","s","c","r","i","p","t","i","o","n">>, <<"P","a","r","t"," ","N","o",".">>, <<"C","o","n","d","i","t","i","o","n">> >>
      [] layout = "single" -> << <<"C","o","n","d","i","t","i","o","n">> >>
      [] layout = "empty" -> <<>>
LayoutRow(layout, i, x) ==
    CASE layout = "standard" -> Meta(i) \o << Empty, x[1], <<"1">>, <<"E","A">>, x[2] >>
      [] layout = "remarks" -> Meta(i) \o << Empty, <<"u","r","g","e","n","t">>, x[1], <<"1">>, <<"E","A">>, x[2] >>
      [] layout = "narrow" -> Meta(i) \o << Empty, x[1], x[2] >>
      [] layout = "single" -> << x[2] >>
      [] layout = "empty" -> <<>>
RequestsFile(layout, xs) ==
    [present  |-> TRUE,
     filename |-> "requests.xlsx",
     columns  |-> LayoutColumns(layout),
     rows     |-> IF layout = "empty" THEN <<>>
                  ELSE [i \in 1..Len(xs) |-> LayoutRow(layout, i, xs[i])]]
NoRequests == [present |-> FALSE, filename |-> "", columns |-> <<>>, rows |-> <<>>]

\* the days on which the invocation may run
June2024 == [year |-> 2024, month |-> 6, day |-> 1]
Todays == { June2024, [year |-> 2024, month |-> 7, day |-> 1] }

\* ------------------------------------------------------- process(), step by step
StartWith(l, r, t) ==
    /\ pc = "process"
    /\ lc = l
    /\ rq = r
    /\ inv = <<>>
    /\ req = NoTable
    /\ match_df = <<>>
    /\ unmatched_df = <<>>
    /\ book = NoBook
    /\ today = t
    /\ exc = ""
    /\ response = NoResponse

OneRow == InvRow(<<"5">>, <<"a","b","1","2","3">>, <<"o","h"," ">>, <<"2","0","2","3","-","0","1","-","1","5">>, <<"1","0","0">>, Empty)
OneRequest == <<<<"A","B","1","2","3">>, <<"O","H",",","N","E">>>>

InitMatch ==
    \E rows \in SeqsUpTo(MatchRows, 0, MaxInv), xs \in SeqsUpTo(RequestRows, 1, MaxReq) :
        StartWith(InventoryFile(rows), RequestsFile("standard", xs), June2024)
InitQuantity ==
    \E rows \in SeqsUpTo(QuantityRows, 0, MaxInv) :
        StartWith(InventoryFile(rows), RequestsFile("standard", <<OneRequest>>), June2024)
InitPrice ==
    \E rows \in SeqsUpTo(PriceRows, 0, MaxInv) :
        StartWith(InventoryFile(rows), RequestsFile("standard", <<OneRequest>>), June2024)
InitTag ==
    \E rows \in SeqsUpTo(TagRows, 0, MaxInv), t \in Todays :
        StartWith(InventoryFile(rows), RequestsFile("standard", <<OneRequest>>), t)
InitLayout ==
    \E layout \in Layouts, xs \in SeqsUpTo(RequestRows, 1, MaxReq) :
        StartWith(InventoryFile(<<OneRow>>), RequestsFile(layout, xs), June2024)
InitStructure ==
    \E l \in {NoFile, InventoryFileNoQty, InventoryFile(<<>>)},
       r \in {NoRequests, RequestsFile("standard", <<OneRequest>>)} :
        StartWith(l, r, June2024)

Init ==
    \/ InitMatch
    \/ InitQuantity
    \/ InitPrice
    \/ InitTag
    \/ InitLayout
    \/ InitStructure

\* lines 227-228: except Exception as e: return f"Error: {e}", 500
Raise(e) ==
    /\ exc' = e
    /\ response' = [status |-> 500, body |-> <<"Error: ", e>>,
                    file |-> NoBook, download_name |-> ""]
    /\ pc' = "done"

\* lines 205-207
Receive ==
    /\ pc = "process"
    /\ IF ~lc.present \/ ~rq.present
       THEN /\ response' = [status |-> 400, body |-> <<"Both files required">>,
                            file |-> NoBook, download_name |-> ""]
            /\ pc' = "done"
       ELSE /\ pc' = "load_inventory"
            /\ UNCHANGED response
    /\ UNCHANGED <<lc, rq, inv, req, match_df, unmatched_df, book, today, exc>>

\* line 209
LoadInventory ==
    /\ pc = "load_inventory"
    /\ IF load_inventory_raises(lc)
       THEN /\ Raise("'inscor__Quantity_Available__c'")
            /\ UNCHANGED inv
       ELSE /\ inv' = load_inventory(lc)
            /\ pc' = "load_requests"
            /\ UNCHANGED <<exc, response>>
    /\ UNCHANGED <<lc, rq, req, match_df, unmatched_df, book, today>>

\* line 210
LoadRequests ==
    /\ pc = "load_requests"
    /\ IF load_requests_raises(rq)
       THEN /\ Raise("index -1 is out of bounds for axis 0 with size 0")
            /\ UNCHANGED req
       ELSE /\ req' = load_requests(rq)
            /\ pc' = "set_lead_time"
            /\ UNCHANGED <<exc, response>>
    /\ UNCHANGED <<lc, rq, inv, match_df, unmatched_df, book, today>>

\* line 211
SetLeadTime ==
    /\ pc = "set_lead_time"
    /\ IF set_lead_time_raises(req)
       THEN /\ Raise("index 5 is out of bounds for axis 0")
            /\ UNCHANGED inv
       ELSE /\ inv' = set_lead_time(inv, req)
            /\ pc' = "fill_certificates"
            /\ UNCHANGED <<exc, response>>
    /\ UNCHANGED <<lc, rq, req, match_df, unmatched_df, book, today>>

\* line 212
FillCertificates ==
    /\ pc = "fill_certificates"
    /\ inv' = fill_certificates(inv)
    /\ pc' = "attach_request_meta"
    /\ UNCHANGED <<lc, rq, req, match_df, unmatched_df, book, today, exc, response>>

\* lines 214-217
AttachRequestMeta ==
    /\ pc = "attach_request_meta"
    /\ match_df' = build_match_df(inv, req)
    /\ pc' = "unmatched_req_sheet"
    /\ UNCHANGED <<lc, rq, inv, req, unmatched_df, book, today, exc, response>>

\* line 219
UnmatchedReqSheet ==
    /\ pc = "unmatched_req_sheet"
    /\ unmatched_df' = unmatched_req_sheet(inv, req)
    /\ pc' = "write"
    /\ UNCHANGED <<lc, rq, inv, req, match_df, book, today, exc, response>>

\* lines 221-224: the temporary file is created and written, or the operating
\* system refuses (OSError)
WriteWorkbook ==
    /\ pc = "write"
    /\ \/ /\ book' = [book EXCEPT !.written = TRUE,
                                  !.match = match_sheet(match_df),
                                  !.unmatched = unmatched_sheet(unmatched_df)]
          /\ pc' = "colour_rows"
          /\ UNCHANGED <<exc, response>>
       \/ /\ Raise("[Errno 28] No space left on device")
          /\ UNCHANGED book
    /\ UNCHANGED <<lc, rq, inv, req, match_df, unmatched_df, today>>

\* colour_rows whose failure is swallowed: the hand-off goes on
ColourRowsSwallowed ==
    /\ pc = "colour_rows"
    /\ \/ book' = [book EXCEPT !.coloured = TRUE,
                                !.fill = colour_rows(book.match, today)]
       \/ UNCHANGED book
    /\ pc' = "send_file"
    /\ UNCHANGED <<lc, rq, inv, req, match_df, unmatched_df, today, exc, response>>

\* line 225: the workbook is re-opened, coloured and saved, or load_workbook
\* or save raises
ColourRows ==
    /\ pc = "colour_rows"
    /\ \/ /\ book' = [book EXCEPT !.coloured = TRUE,
                                  !.fill = colour_rows(book.match, today)]
          /\ pc' = "send_file"
          /\ UNCHANGED <<exc, response>>
       \/ /\ Raise("[Errno 5] Input/output error")
          /\ UNCHANGED book
    /\ UNCHANGED <<lc, rq, inv, req, match_df, unmatched_df, today>>

\* line 226
SendFile ==
    /\ pc = "send_file"
    /\ \/ /\ response' = [status |-> 200, body |-> <<>>,
                          file |-> book, download_name |-> rq.filename]
          /\ pc' = "done"
          /\ UNCHANGED exc
       \/ Raise("[Errno 2] No such file or directory")
    /\ UNCHANGED <<lc, rq, inv, req, match_df, unmatched_df, book, today>>

Next ==
    \/ Receive
    \/ LoadInventory
    \/ LoadRequests
    \/ SetLeadTime
    \/ FillCertificates
    \/ AttachRequestMeta
    \/ UnmatchedReqSheet
    \/ WriteWorkbook
    \/ ColourRows
    \/ SendFile

Spec == Init /\ [][Next]_vars

\* =====================================================================
\* The claims.  They are stated over the uploaded files lc and rq as the
\* user sees them (columns found by their header) and over what process()
\* produced, not over the intermediate steps of the code.
\* =====================================================================
Stages ==
    << "process", "load_inventory", "load_requests", "set_lead_time",
       "fill_certificates", "attach_request_meta", "unmatched_req_sheet",
       "write", "colour_rows", "send_file", "done" >>

\* the statement `stage` has just run to its end, or the invocation has
\* returned the workbook (what a statement produced is not written again)
Completed(stage) ==
    \/ pc = Stages[IndexOf(stage, Stages) + 1]
    \/ pc = "done" /\ response.status = 200

\* the requests sheet, read by header
ReqCol(name) == CHOOSE k \in 1..Len(rq.columns) : rq.columns[k] = name
ReqRows == 1..Len(rq.rows)
ReqPartNo(i) == rq.rows[i][ReqCol(<<"P","a","r","t"," ","N","o",".">>)]
ReqCondition(i) == rq.rows[i][ReqCol(<<"C","o","n","d","i","t","i","o","n">>)]
ReqMeta(i) ==
    << rq.rows[i][ReqCol(<<"R","e","q","u","e","s","t"," ","N","o",".">>)], rq.rows[i][ReqCol(<<"D","e","l","i","v","e","r","y"," ","D","a","t","e">>)],
       rq.rows[i][ReqCol(<<"D","e","m","a","n","d","e","r">>)], rq.rows[i][ReqCol(<<"T","r","a","n","s","a","c","t","i","o","n"," ","T","y","p","e","s">>)] >>
RowMeta(m) ==
    << m["Request No."], m["Delivery Date"], m["Demander"], m["Transaction Types"] >>

\* the inventory file, row i of the file having pandas index i - 1 (a file
\* without the quantity column has no row the claims speak of)
InvRows ==
    IF InventoryColumns \subseteq lc.columns THEN 1..Len(lc.rows) ELSE {}
InvPartNo(i) == lc.rows[i]["inscor__Product__r.Name"]
InvCondition(i) == lc.rows[i]["inscor__Condition_Code__r.Name"]
InvQuantity(i) == to_number(lc.rows[i]["inscor__Quantity_Available__c"])
\* the quantity field, coerced to a number with non-numeric counted as 0, is <= 0
NonPositive(i) == InvQuantity(i) = Empty \/ InvQuantity(i)[1] <= 0
PassedFilter(i) == \E k \in 1..Len(inv) : inv[k]["index"] = i - 1
Indexes(df) == { df[k]["index"] : k \in 1..Len(df) }

\* part numbers and conditions compared without regard to letter case, to
\* punctuation in part numbers and to blanks around conditions
IsLowerAlnum(c) == IsIn(c, Lower) \/ IsIn(c, Digits)
FoldPn(text) == SelectSeq(lower(text), IsLowerAlnum)
FoldCond(text) == lower(strip(text))

\* the first four comma-separated pieces of a condition field that are not
\* empty after trimming
DemandPieces(field) ==
    LET p == split(field, ",")
    IN { strip(p[k]) : k \in { j \in 1..Len(p) : j <= 4 /\ strip(p[j]) # Empty } }
\* the demand tuples one request row contributes
DemandOfRow(i) == { <<norm_pn(ReqPartNo(i)), upper(c)>> : c \in DemandPieces(ReqCondition(i)) }
Demanded(pn, cond) ==
    \E i \in ReqRows : \E c \in DemandPieces(ReqCondition(i)) :
        FoldPn(ReqPartNo(i)) = FoldPn(pn) /\ FoldCond(c) = FoldCond(cond)

\* C1: the Match sheet holds exactly one row for each inventory row that
\* passed the quantity filter and whose (part number, condition) is demanded by
\* some request row, and no other row; letter case of conditions and
\* punctuation or case of part numbers on either side make no difference.
C1_MatchSheetIsDemandedRows ==
    Completed("attach_request_meta") =>
        /\ Indexes(match_df) =
             { i - 1 : i \in { j \in InvRows :
                   PassedFilter(j) /\ Demanded(InvPartNo(j), InvCondition(j)) } }
        /\ Len(match_df) = Cardinality(Indexes(match_df))
        /\ \A k \in 1..Len(match_df) :
             /\ match_df[k]["PART NUMBER"] = InvPartNo(match_df[k]["index"] + 1)
             /\ match_df[k]["CONDITION"] = InvCondition(match_df[k]["index"] + 1)
        /\ Completed("write") => Len(book.match.rows) = Len(match_df)

\* a matched row whose part number and condition are spelled differently from
\* the request's, beside a row that passed the filter and is not demanded
C1_Witness ==
    /\ pc = "done" /\ response.status = 200
    /\ \E k \in 1..Len(match_df) : \E i \in ReqRows :
          /\ FoldPn(ReqPartNo(i)) = FoldPn(match_df[k]["PART NUMBER"])
          /\ ReqPartNo(i) # match_df[k]["PART NUMBER"]
          /\ match_df[k]["CONDITION"] \notin DemandPieces(ReqCondition(i))
          /\ FoldCond(match_df[k]["CONDITION"]) \in
                { FoldCond(c) : c \in DemandPieces(ReqCondition(i)) }
    /\ \E j \in InvRows : PassedFilter(j) /\ (j - 1) \notin Indexes(match_df)

\* C2: the Not Matching Values sheet lists exactly the normalized request part
\* numbers that equal the normalized part number of no inventory row that
\* passed the quantity filter (matched or not), each once.
C2_UnmatchedIsRequestsWithoutInventory ==
    Completed("unmatched_req_sheet") =>
        /\ SeqToSet(unmatched_df) =
             { norm_pn(ReqPartNo(i)) : i \in ReqRows }
             \ { norm_pn(InvPartNo(j)) : j \in { x \in InvRows : PassedFilter(x) } }
        /\ Len(unmatched_df) = Cardinality(SeqToSet(unmatched_df))
        /\ Completed("write") =>
             book.unmatched.rows = [k \in 1..Len(unmatched_df) |-> <<unmatched_df[k]>>]

\* two request rows with one normalized part number that is listed, once, and
\* a requested part number that is in stock but not matched and so not listed
C2_Witness ==
    /\ pc = "done" /\ response.status = 200
    /\ \E i, j \in ReqRows :
          /\ i # j
          /\ norm_pn(ReqPartNo(i)) = norm_pn(ReqPartNo(j))
          /\ unmatched_df = <<norm_pn(ReqPartNo(i))>>
    /\ Len(inv) > 0

\* C3: an inventory row with coerced quantity <= 0 is dropped by load_inventory
\* and no row of the workbook is derived from it: it is no row of the Match
\* sheet, and a requested part number that only such rows carry is reported as
\* not matching.
C3_NonPositiveQuantityNeverAppears ==
    /\ \A i \in InvRows : NonPositive(i) =>
          /\ (i - 1) \notin Indexes(inv)
          /\ (i - 1) \notin Indexes(match_df)
    /\ Completed("unmatched_req_sheet") =>
          \A x \in ReqRows :
              (\A i \in InvRows :
                   norm_pn(InvPartNo(i)) = norm_pn(ReqPartNo(x)) => NonPositive(i))
              => IsIn(norm_pn(ReqPartNo(x)), unmatched_df)
    /\ Completed("write") =>
          /\ Len(book.match.rows) = Len(match_df)
          /\ book.unmatched.rows = [k \in 1..Len(unmatched_df) |-> <<unmatched_df[k]>>]

\* a dropped row whose part number and condition are requested, beside a kept
\* row, in a workbook that was sent
C3_Witness ==
    /\ pc = "done" /\ response.status = 200
    /\ \E i \in InvRows :
          /\ NonPositive(i)
          /\ Demanded(InvPartNo(i), InvCondition(i))
    /\ Len(match_df) > 0

\* the request rows whose normalized part number is that of `pn`
ReqRowsFor(pn) == { i \in ReqRows : norm_pn(ReqPartNo(i)) = norm_pn(pn) }
FirstRowFor(pn) == CHOOSE i \in ReqRowsFor(pn) : \A j \in ReqRowsFor(pn) : i <= j
LastRowFor(pn) == CHOOSE i \in ReqRowsFor(pn) : \A j \in ReqRowsFor(pn) : i >= j

\* C4 as stated: when several request rows share a normalized part number,
\* every matched row with that part number carries the four metadata values
\* of the first such request row in input order.
C4_FirstOccurrenceWins ==
    Completed("attach_request_meta") =>
        \A k \in 1..Len(match_df) :
            Cardinality(ReqRowsFor(match_df[k]["PART NUMBER"])) > 1 =>
                RowMeta(match_df[k]) = ReqMeta(FirstRowFor(match_df[k]["PART NUMBER"]))

\* C4 as amended: when several request rows share a normalized part number,
\* every matched row with that part number carries the four metadata values
\* of the last such request row in input order.
C4_LastOccurrenceWins ==
    Completed("attach_request_meta") =>
        \A k \in 1..Len(match_df) :
            Cardinality(ReqRowsFor(match_df[k]["PART NUMBER"])) > 1 =>
                RowMeta(match_df[k]) = ReqMeta(LastRowFor(match_df[k]["PART NUMBER"]))

\* a matched row whose part number two request rows with different metadata share
C4_Witness ==
    /\ pc = "done" /\ response.status = 200
    /\ \E k \in 1..Len(match_df) : \E i, j \in ReqRowsFor(match_df[k]["PART NUMBER"]) :
          i < j /\ ReqMeta(i) # ReqMeta(j)

\* C5 as stated: the derived sale price of a kept row is the primary price if
\* it parses to a positive number, otherwise the extended price if that
\* parses (also when the primary price is empty or does not parse), and the
\* empty marker only if neither parses.
C5_PriceFallsBackToExtended ==
    Completed("load_inventory") =>
        \A k \in 1..Len(inv) :
            LET r == lc.rows[inv[k]["index"] + 1]
                p == to_number(r["SSP_Updated__c"])
                e == to_number(r["Extended_SSP__c"])
            IN inv[k]["SALES PRICE"] = (IF p # Empty /\ p[1] > 0 THEN p ELSE e)

\* C6: the statements of process() run strictly in order; the workbook is
\* returned as a success only by the hand-off, after the workbook was written
\* and coloured; a statement that raises ends the invocation with the error
\* response that carries the exception's message and no workbook.
C6_FailureAbortsPipeline ==
    [][ pc # "done" =>
          /\ pc' \in {Stages[IndexOf(pc, Stages) + 1], "done"}
          /\ pc' # "done" => exc' = "" /\ response' = NoResponse
          /\ exc' # exc =>
                /\ pc' = "done"
                /\ response'.status = 500
                /\ response'.body = <<"Error: ", exc'>>
                /\ response'.file = NoBook
          /\ response'.status = 200 =>
                /\ pc = "send_file" /\ pc' = "done"
                /\ exc' = ""
                /\ book.written /\ book.coloured
                /\ response'.file = book
                /\ book.match = match_sheet(match_df)
                /\ book.unmatched = unmatched_sheet(unmatched_df)
      ]_vars

\* an invocation that failed after the workbook was written: the file exists
\* and the response is the error
C6_Witness ==
    /\ pc = "done"
    /\ book.written
    /\ response.status = 500
    /\ response.body = <<"Error: ", exc>>
    /\ Len(book.match.rows) > 0

\* C7: the demand set is the union, over the request rows, of the pairs
\* (normalize(the row's own part number), trim-upper(c)) for each c among the
\* first four comma-separated pieces of the row's condition field that is not
\* empty after trimming; the field "OH, ,NE, " yields exactly two tuples.
C7_DemandTuplesOfRequestRows ==
    (Completed("load_requests") /\ IsIn(<<"P","a","r","t"," ","N","o",".">>, rq.columns)) =>
        /\ valid_pairs(req) = UNION { DemandOfRow(i) : i \in ReqRows }
        /\ (Len(rq.rows) = 1 /\ ReqCondition(1) = <<"O","H",","," ",",","N","E",","," ">>) =>
              valid_pairs(req) = { <<norm_pn(ReqPartNo(1)), C_OH>>,
                                   <<norm_pn(ReqPartNo(1)), C_NE>> }

\* two request rows with different part numbers, one with a field of five
\* pieces and one with empty pieces
C7_Witness ==
    /\ pc = "set_lead_time"
    /\ \E i, j \in ReqRows :
          /\ norm_pn(ReqPartNo(i)) # norm_pn(ReqPartNo(j))
          /\ Len(split(ReqCondition(i), ",")) > 4
          /\ ReqCondition(j) = <<"O","H",","," ",",","N","E",","," ">>
    /\ IsIn(<<"P","a","r","t"," ","N","o",".">>, rq.columns)

\* the cells of data row i of the coloured Match sheet all have fill f
RowFill(i, f) == \A c \in 1..Len(book.fill[i]) : book.fill[i][c] = f
TagDate(i) == book.match.rows[i][IndexOf("TAG DATE", FINAL_ORDER)]
TagAge(i) ==
    LET d == strptime_date(TagDate(i))[1]
    IN (today.year - d.year) * 12 + (today.month - d.month)

\* C8: every cell of a data row of the Match sheet is red when the month
\* difference between today and the tag date is more than 24, green when it
\* is 8 to 24, yellow when it is less than 8; a row whose tag date is empty or
\* does not parse keeps its cells without fill.
C8_RowColourByTagAge ==
    book.coloured =>
        /\ Len(book.fill) = Len(book.match.rows)
        /\ \A i \in 1..Len(book.match.rows) :
              /\ Len(book.fill[i]) = Len(FINAL_ORDER)
              /\ IF TagDate(i) = Empty \/ strptime_date(TagDate(i)) = Empty
                 THEN RowFill(i, NoFill)
                 ELSE /\ TagAge(i) > 24 => RowFill(i, "FF0000")
                      /\ (TagAge(i) >= 8 /\ TagAge(i) <= 24) => RowFill(i, "00FF00")
                      /\ TagAge(i) < 8 => RowFill(i, "FFFF00")

\* a sheet with a row exactly 8 months old, green, and a row whose tag date is
\* text that does not parse, without fill
C8_Witness ==
    /\ pc = "done" /\ response.status = 200
    /\ \E i, j \in 1..Len(book.match.rows) :
          /\ strptime_date(TagDate(i)) # Empty
          /\ TagAge(i) = 8
          /\ RowFill(i, "00FF00")
          /\ TagDate(j) # Empty
          /\ strptime_date(TagDate(j)) = Empty
          /\ RowFill(j, NoFill)

\* C9 as stated: CERTIFICATES of a Match row is "FAA,EASA" when its condition
\* is SV or OH, "FAA" when it is NE, NEW or FN, empty otherwise, without
\* regard to letter case; in particular a row that matched a demand tuple
\* with one of these condition codes carries that code's certificates.
C9_CertificatesOfMatchedRows ==
    Completed("attach_request_meta") =>
        \A k \in 1..Len(match_df) :
            LET code == CHOOSE c \in { upper(x) : x \in UNION { DemandPieces(ReqCondition(i)) :
                                                      i \in ReqRowsFor(match_df[k]["PART NUMBER"]) } } :
                            FoldCond(c) = FoldCond(match_df[k]["CONDITION"])
            IN match_df[k]["CERTIFICATES"] =
                 (IF code \in {C_SV, C_OH} THEN FAA_EASA
                  ELSE IF code \in {C_NE, C_NEW, C_FN} THEN FAA
                  ELSE Empty)

\* C10: every row of the Match sheet has a lookup hit: its four metadata
\* columns are those of a request row with the same normalized part number.
C10_EveryMatchedRowHasRequestMeta ==
    Completed("attach_request_meta") =>
        /\ \A k \in 1..Len(match_df) :
              \E i \in ReqRowsFor(match_df[k]["PART NUMBER"]) :
                  RowMeta(match_df[k]) = ReqMeta(i)
        /\ Completed("write") =>
              \A k \in 1..Len(match_df) :
                  SubSeq(book.match.rows[k], 1, 4) = RowMeta(match_df[k])

\* a matched row whose part number is spelled differently from the request's
C10_Witness ==
    /\ pc = "done" /\ response.status = 200
    /\ \E k \in 1..Len(match_df) :
          /\ \A i \in ReqRows : ReqPartNo(i) # match_df[k]["PART NUMBER"]
          /\ match_df[k]["Request No."] # Empty

====
